---------------------------- MODULE Spec2Model ----------------------------
(***************************************************************************)
(* A model of abitype's src/abi.ts: the Solidity type grammar, the array   *)
(* type builder, the ABI entry types and the EIP-712 typed data types.     *)
(*                                                                         *)
(* The source is a set of TypeScript type declarations.  "Accepted" means  *)
(* "assignable to the declared type" (the structural relation the          *)
(* compiler uses for a constraint such as `TAbi extends Abi`).             *)
(*                                                                         *)
(* A string is a sequence of one-character strings.  A string type is a    *)
(* record [lits, pats]: `lits` is a set of string literal types and        *)
(* `pats` holds one prefix p for every template pattern `${p}[${string}]`. *)
(* A JSON property that may be missing is a sequence of length 0 or 1.     *)
(***************************************************************************)
EXTENDS Integers, Sequences, FiniteSets, TLC

VARIABLES
    mode,        \* which declaration is being evaluated
    cfg,         \* ResolvedConfig
    pc,          \* "eval" until the evaluation finished, then "done"
    base,        \* _BuildArrayTypes: the type argument of the outermost instantiation
    T,           \* _BuildArrayTypes: the type parameter T (a set of literals)
    Depth,       \* _BuildArrayTypes: the type parameter Depth (a tuple of 1s)
    expansions,  \* _BuildArrayTypes: recursive instantiations made so far
    built,       \* _BuildArrayTypes: the resulting string type
    input,       \* the value checked against a declared type
    accepted     \* the declared types the value is assignable to

vars == <<mode, cfg, pc, base, T, Depth, expansions, built, input, accepted>>

----------------------------------------------------------------------------
(* Bounds of the model *)

\* largest finite ArrayMaxDepth a configuration is drawn with
MaxDepthCfg == 2
\* largest FixedArrayMaxLength a finite-depth configuration is drawn with
MaxLenCfg == 1

----------------------------------------------------------------------------
(* Strings *)

DigitChars == <<"0", "1", "2", "3", "4", "5", "6", "7", "8", "9">>

\* `${n}` for a non-negative integer n: its decimal numeral
RECURSIVE NumStr(_)
NumStr(n) ==
    IF n < 10 THEN <<DigitChars[n + 1]>>
    ELSE NumStr(n \div 10) \o <<DigitChars[(n % 10) + 1]>>

sAddress  == <<"a", "d", "d", "r", "e", "s", "s">>
sBool     == <<"b", "o", "o", "l">>
sBytes    == <<"b", "y", "t", "e", "s">>
sFunction == <<"f", "u", "n", "c", "t", "i", "o", "n">>
sString   == <<"s", "t", "r", "i", "n", "g">>
sTuple    == <<"t", "u", "p", "l", "e">>
sInt      == <<"i", "n", "t">>
sU        == <<"u">>
sEmpty    == <<>>

IsPrefix(p, s) == Len(p) <= Len(s) /\ SubSeq(s, 1, Len(p)) = p
IsSuffix(x, s) == Len(x) <= Len(s) /\ SubSeq(s, Len(s) - Len(x) + 1, Len(s)) = x

\* the literal types `${a}${b}` for a in A, b in B
Concat(A, B) == {a \o b : a \in A, b \in B}

(* String types *)

Lit(S) == [lits |-> S, pats |-> {}]
Never  == [lits |-> {}, pats |-> {}]
Union(A, B) == [lits |-> A.lits \cup B.lits, pats |-> A.pats \cup B.pats]

\* s is assignable to the pattern `${p}[${string}]`
MatchesPattern(s, p) ==
    /\ Len(s) >= Len(p) + 2
    /\ SubSeq(s, 1, Len(p) + 1) = p \o <<"[">>
    /\ s[Len(s)] = "]"

\* the string s is assignable to the string type ty
Member(s, ty) == s \in ty.lits \/ \E p \in ty.pats : MatchesPattern(s, p)

\* Exclude<U, X>: distributes over the members of U and drops each member
\* that is assignable to X.  A pattern is assignable to X only if X holds it.
Exclude(U, X) ==
    [lits |-> {l \in U.lits : ~Member(l, X)},
     pats |-> {p \in U.pats : p \notin X.pats}]

----------------------------------------------------------------------------
(* Solidity types *)

\* MBytes with the width 0 let in
MBytesFromZero == {sEmpty} \cup {NumStr(n) : n \in 0..32}

MBytes ==
    {sEmpty} \cup {NumStr(n) : n \in
        { 1,  2,  3,  4,  5,  6,  7,  8,  9,
         10, 11, 12, 13, 14, 15, 16, 17, 18, 19,
         20, 21, 22, 23, 24, 25, 26, 27, 28, 29,
         30, 31, 32}}

MBits ==
    {sEmpty} \cup {NumStr(n) : n \in
        {  8,  16,  24,  32,  40,  48,  56,  64,  72,
          80,  88,  96, 104, 112, 120, 128, 136, 144, 152,
         160, 168, 176, 184, 192, 200, 208, 216, 224, 232,
         240, 248, 256}}

SolidityAddress  == {sAddress}
SolidityBool     == {sBool}
SolidityBytes    == Concat({sBytes}, MBytes)
SolidityFunction == {sFunction}
SolidityString   == {sString}
SolidityTuple    == {sTuple}
SolidityInt      == Concat(Concat({sU, sEmpty}, {sInt}), MBits)

----------------------------------------------------------------------------
(* Configuration *)

\* ArrayMaxDepth: false
Off == -1

DefaultConfig ==
    [ArrayMaxDepth |-> Off, FixedArrayMinLength |-> 1, FixedArrayMaxLength |-> 99]

FiniteConfigs ==
    {c \in [ArrayMaxDepth : 0..MaxDepthCfg,
            FixedArrayMinLength : 0..MaxLenCfg,
            FixedArrayMaxLength : 0..MaxLenCfg] :
        c.FixedArrayMinLength <= c.FixedArrayMaxLength}

Configs == {DefaultConfig} \cup FiniteConfigs

\* Range<Min, Max>[number]
Range(min, max) == min..max

SolidityFixedArrayRange(c) == Range(c.FixedArrayMinLength, c.FixedArrayMaxLength)

\* Suffixes with the range running one past FixedArrayMaxLength
SuffixesPastMax(c) ==
    {<<"[">> \o m \o <<"]">> :
        m \in {NumStr(n) : n \in c.FixedArrayMinLength..(c.FixedArrayMaxLength + 1)}
               \cup {sEmpty}}

\* the literals `[${SolidityFixedArrayRange | ''}]`
Suffixes(c) ==
    {<<"[">> \o m \o <<"]">> :
        m \in {NumStr(n) : n \in SolidityFixedArrayRange(c)} \cup {sEmpty}}

----------------------------------------------------------------------------
(* _BuildArrayTypes *)

\* t extends `${any}[${SolidityFixedArrayRange | ''}]`
ExtendsArray(t, c) == \E x \in Suffixes(c) : IsSuffix(x, t)

\* [...Depth, 1]
GrowDepth(d) == Append(d, 1)

\* DepthReached one instantiation late
DepthReachedLate(d, c) == Len(d) = c.ArrayMaxDepth + 1

\* Depth['length'] extends ResolvedConfig['ArrayMaxDepth']
DepthReached(d, c) == Len(d) = c.ArrayMaxDepth

\* ExpandT without the test on T: every member is kept
ExpandTKeepAll(S, c) == UNION {{t} \cup Concat({t}, Suffixes(c)) : t \in S}

\* the type argument of the recursive instantiation; the conditional type
\* distributes over the members of T
ExpandT(S, c) ==
    UNION {IF ExtendsArray(t, c)
             THEN {t} \cup Concat({t}, Suffixes(c))
             ELSE Concat({t}, Suffixes(c)) : t \in S}

\* `${T}[${string}]`
BroadArray(S) == [lits |-> {}, pats |-> S]

RECURSIVE BuildArrayTypes(_, _, _)
BuildArrayTypes(S, d, c) ==
    IF c.ArrayMaxDepth = Off THEN BroadArray(S)
    ELSE IF DepthReached(d, c) THEN Lit(S)
    ELSE BuildArrayTypes(ExpandT(S, c), GrowDepth(d), c)

WithoutTupleBases ==
    SolidityAddress \cup SolidityBool \cup SolidityBytes \cup SolidityFunction
        \cup SolidityInt \cup SolidityString

\* _BuildArrayTypes distributes over the union T and only appends to its
\* members, so a string s can only be assignable to what is built from the
\* members of T that are prefixes of s.  The array types below are evaluated
\* for one checked string s, over those members.
Scope(S, s) == {b \in S : IsPrefix(b, s)}

SolidityArrayWithoutTuple(c, s) ==
    BuildArrayTypes(Scope(WithoutTupleBases, s), <<>>, c)
SolidityArrayWithTuple(c, s) ==
    BuildArrayTypes(Scope(SolidityTuple, s), <<>>, c)
SolidityArray(c, s) ==
    Union(SolidityArrayWithoutTuple(c, s), SolidityArrayWithTuple(c, s))

AbiType(c, s) ==
    Union(SolidityArray(c, s),
          Lit(SolidityAddress \cup SolidityBool \cup SolidityBytes
              \cup SolidityFunction \cup SolidityInt \cup SolidityString
              \cup SolidityTuple))

\* Exclude<AbiType, SolidityFunction | SolidityTuple | SolidityArrayWithTuple>
TypedDataType(c, s) ==
    Exclude(AbiType(c, s),
            Union(Lit(SolidityFunction \cup SolidityTuple),
                  SolidityArrayWithTuple(c, s)))

----------------------------------------------------------------------------
(* Evaluation of _BuildArrayTypes<T>, one instantiation per step *)

BuildInputs == (SUBSET {sAddress, sTuple, sU \o sInt \o NumStr(8)}) \ {{}}

InitBuild ==
    /\ mode = "build"
    /\ cfg \in Configs
    /\ pc = "eval"
    /\ base \in BuildInputs
    /\ T = base
    /\ Depth = <<>>
    /\ expansions = 0
    /\ built = Never
    /\ input = <<>>
    /\ accepted = {}

\* ResolvedConfig['ArrayMaxDepth'] extends false ? `${T}[${string}]`
BuildBroad ==
    /\ mode = "build" /\ pc = "eval"
    /\ cfg.ArrayMaxDepth = Off
    /\ built' = BroadArray(T)
    /\ pc' = "done"
    /\ UNCHANGED <<mode, cfg, base, T, Depth, expansions, input, accepted>>

\* Depth['length'] extends ResolvedConfig['ArrayMaxDepth'] ? T
BuildStop ==
    /\ mode = "build" /\ pc = "eval"
    /\ cfg.ArrayMaxDepth # Off
    /\ DepthReached(Depth, cfg)
    /\ built' = Lit(T)
    /\ pc' = "done"
    /\ UNCHANGED <<mode, cfg, base, T, Depth, expansions, input, accepted>>

\* _BuildArrayTypes<..., [...Depth, 1]>
BuildExpand ==
    /\ mode = "build" /\ pc = "eval"
    /\ cfg.ArrayMaxDepth # Off
    /\ ~DepthReached(Depth, cfg)
    /\ T' = ExpandT(T, cfg)
    /\ Depth' = GrowDepth(Depth)
    /\ expansions' = expansions + 1
    /\ UNCHANGED <<mode, cfg, pc, base, built, input, accepted>>

NextBuild == BuildBroad \/ BuildStop \/ BuildExpand

SpecBuild == InitBuild /\ [][NextBuild]_vars
SpecBuildFair == SpecBuild /\ WF_vars(NextBuild)

----------------------------------------------------------------------------
(* A type string checked against the declared string types *)

\* longest numeral appended to a word of the grammar
MaxDigits == 3
\* most bracket groups appended to a base
MaxSuffixes == 2

sFixed  == <<"f", "i", "x", "e", "d">>
sPerson == <<"P", "e", "r", "s", "o", "n">>

RECURSIVE DigitStrings(_)
DigitStrings(n) ==
    IF n = 0 THEN {<<>>}
    ELSE DigitStrings(n - 1)
           \cup {Append(m, DigitChars[i]) : m \in DigitStrings(n - 1), i \in 1..10}

\* a word followed by any numeral, well formed or not
WidthInputs ==
    Concat({sBytes, sInt, sU \o sInt}, DigitStrings(MaxDigits))
        \cup {sAddress, sBool, sFunction, sString, sTuple, sFixed, sPerson, sEmpty,
              sAddress \o NumStr(8), sTuple \o NumStr(1), sU \o sU \o sInt}

BracketContents ==
    {<<>>, <<"0">>, <<"1">>, <<"2">>, <<"0", "1">>, <<"x">>, <<"]", "x">>}

RECURSIVE WithSuffixes(_, _)
WithSuffixes(S, n) ==
    IF n = 0 THEN S
    ELSE LET R == WithSuffixes(S, n - 1) IN
         R \cup {r \o <<"[">> \o m \o <<"]">> : r \in R, m \in BracketContents}

ArrayInputs ==
    WithSuffixes({sAddress, sFunction, sTuple, sU \o sInt \o NumStr(256),
                  sBytes \o NumStr(33), sPerson}, MaxSuffixes)

\* the declared string types, by name
StringTypes(c, s) ==
    [SolidityBytes             |-> Lit(SolidityBytes),
     SolidityInt               |-> Lit(SolidityInt),
     SolidityArrayWithoutTuple |-> SolidityArrayWithoutTuple(c, s),
     SolidityArrayWithTuple    |-> SolidityArrayWithTuple(c, s),
     SolidityArray             |-> SolidityArray(c, s),
     AbiType                   |-> AbiType(c, s),
     TypedDataType             |-> TypedDataType(c, s)]

\* the names of the declared string types s is assignable to
AcceptedAs(s, c) ==
    LET types == StringTypes(c, s) IN {n \in DOMAIN types : Member(s, types[n])}

InitType ==
    /\ mode = "type"
    /\ \/ cfg \in Configs
          /\ input \in ArrayInputs
       \/ cfg \in {c \in Configs : c.ArrayMaxDepth \in {Off, 0}
                                     /\ c.FixedArrayMinLength = 1}
          /\ input \in WidthInputs
    /\ pc = "eval"
    /\ base = {} /\ T = {} /\ Depth = <<>> /\ expansions = 0 /\ built = Never
    /\ accepted = {}

CheckType ==
    /\ mode = "type" /\ pc = "eval"
    /\ accepted' = AcceptedAs(input, cfg)
    /\ pc' = "done"
    /\ UNCHANGED <<mode, cfg, base, T, Depth, expansions, built, input>>

NextType == CheckType

SpecType == InitType /\ [][NextType]_vars

----------------------------------------------------------------------------
(* JSON values.  A scalar is [tag, str]; a property that may be missing is *)
(* a sequence of length 0 (missing) or 1 (present).                        *)

JString(s) == [tag |-> "string", str |-> s]
JNumber    == [tag |-> "number", str |-> <<"1">>]
JBoolean   == [tag |-> "boolean", str |-> <<>>]

Missing == <<>>
Some(v) == <<v>>
Has(f)  == Len(f) = 1

IsString(f)  == Has(f) /\ f[1].tag = "string"
IsNumber(f)  == Has(f) /\ f[1].tag = "number"
IsBoolean(f) == Has(f) /\ f[1].tag = "boolean"
\* the property holds exactly the string literal w
IsLiteral(f, w) == IsString(f) /\ f[1].str = w
\* the property holds a string assignable to the string type ty
IsStringOf(f, ty) == IsString(f) /\ Member(f[1].str, ty)

----------------------------------------------------------------------------
(* ABI types *)

sContract == <<"c", "o", "n", "t", "r", "a", "c", "t">>
sEnum     == <<"e", "n", "u", "m">>
sStruct   == <<"s", "t", "r", "u", "c", "t">>

\* AbiType | `address ${string}` | `contract ${string}` | `enum ${string}`
\*         | `struct ${string}`
IsAbiInternalType(f, c) ==
    /\ IsString(f)
    /\ \/ Member(f[1].str, AbiType(c, f[1].str))
       \/ \E w \in {sAddress, sContract, sEnum, sStruct} :
             IsPrefix(w \o <<" ">>, f[1].str)

\* SolidityTuple | SolidityArrayWithTuple
TupleTypes(c, s) == Union(Lit(SolidityTuple), SolidityArrayWithTuple(c, s))

\* IsAbiParameter with `components` refused on the other types
RECURSIVE IsAbiParameterStrict(_, _)
IsAbiParameterStrict(p, c) ==
    /\ IsString(p.type)
    /\ LET s == p.type[1].str IN
       /\ Member(s, AbiType(c, s))
       /\ IsString(p.name)
       /\ Has(p.internalType) => IsAbiInternalType(p.internalType, c)
       /\ \/ /\ Member(s, Exclude(AbiType(c, s), TupleTypes(c, s)))
             /\ ~Has(p.components)
          \/ /\ Member(s, TupleTypes(c, s))
             /\ Has(p.components)
             /\ \A i \in 1..Len(p.components[1]) :
                   IsAbiParameterStrict(p.components[1][i], c)

RECURSIVE IsAbiParameter(_, _)
IsAbiParameter(p, c) ==
    /\ IsString(p.type)
    /\ LET s == p.type[1].str IN
       /\ Member(s, AbiType(c, s))
       /\ IsString(p.name)
       /\ Has(p.internalType) => IsAbiInternalType(p.internalType, c)
       /\ \/ Member(s, Exclude(AbiType(c, s), TupleTypes(c, s)))
          \/ /\ Member(s, TupleTypes(c, s))
             /\ Has(p.components)
             /\ \A i \in 1..Len(p.components[1]) :
                   IsAbiParameter(p.components[1][i], c)

\* readonly AbiParameter[]
IsAbiParameters(f, c) ==
    Has(f) /\ \A i \in 1..Len(f[1]) : IsAbiParameter(f[1][i], c)

sPure       == <<"p", "u", "r", "e">>
sView       == <<"v", "i", "e", "w">>
sNonpayable == <<"n", "o", "n", "p", "a", "y", "a", "b", "l", "e">>
sPayable    == <<"p", "a", "y", "a", "b", "l", "e">>

AbiStateMutability == Lit({sPure, sView, sNonpayable, sPayable})

sConstructor == <<"c", "o", "n", "s", "t", "r", "u", "c", "t", "o", "r">>
sFallback    == <<"f", "a", "l", "l", "b", "a", "c", "k">>
sReceive     == <<"r", "e", "c", "e", "i", "v", "e">>
sEvent       == <<"e", "v", "e", "n", "t">>
sError       == <<"e", "r", "r", "o", "r">>

\* IsAbiFunction with `outputs` optional and any stateMutability on receive
IsAbiFunctionLoose(e, c) ==
    /\ Has(e.constant) => IsBoolean(e.constant)
    /\ Has(e.gas) => IsNumber(e.gas)
    /\ Has(e.payable) => IsBoolean(e.payable)
    /\ IsStringOf(e.stateMutability, AbiStateMutability)
    /\ \/ /\ IsLiteral(e.type, sFunction)
          /\ IsAbiParameters(e.inputs, c)
          /\ IsString(e.name)
          /\ Has(e.outputs) => IsAbiParameters(e.outputs, c)
       \/ /\ IsLiteral(e.type, sConstructor)
          /\ IsAbiParameters(e.inputs, c)
       \/ /\ IsLiteral(e.type, sFallback)
          /\ Has(e.inputs) => e.inputs[1] = <<>>
       \/ IsLiteral(e.type, sReceive)

IsAbiFunction(e, c) ==
    /\ Has(e.constant) => IsBoolean(e.constant)
    /\ Has(e.gas) => IsNumber(e.gas)
    /\ Has(e.payable) => IsBoolean(e.payable)
    /\ IsStringOf(e.stateMutability, AbiStateMutability)
    /\ \/ /\ IsLiteral(e.type, sFunction)
          /\ IsAbiParameters(e.inputs, c)
          /\ IsString(e.name)
          /\ IsAbiParameters(e.outputs, c)
       \/ /\ IsLiteral(e.type, sConstructor)
          /\ IsAbiParameters(e.inputs, c)
       \/ /\ IsLiteral(e.type, sFallback)
          /\ Has(e.inputs) => e.inputs[1] = <<>>
       \/ /\ IsLiteral(e.type, sReceive)
          /\ IsLiteral(e.stateMutability, sPayable)

IsAbiEvent(e, c) ==
    /\ IsLiteral(e.type, sEvent)
    /\ Has(e.anonymous) => IsBoolean(e.anonymous)
    /\ Has(e.inputs)
    /\ \A i \in 1..Len(e.inputs[1]) :
          /\ IsAbiParameter(e.inputs[1][i], c)
          /\ Has(e.inputs[1][i].indexed) => IsBoolean(e.inputs[1][i].indexed)
    /\ IsString(e.name)

\* IsAbiError with `stateMutability` refused
IsAbiErrorStrict(e, c) ==
    /\ IsLiteral(e.type, sError)
    /\ IsAbiParameters(e.inputs, c)
    /\ IsString(e.name)
    /\ ~Has(e.stateMutability)

IsAbiError(e, c) ==
    /\ IsLiteral(e.type, sError)
    /\ IsAbiParameters(e.inputs, c)
    /\ IsString(e.name)

\* the members of Abi[number] the entry is assignable to
EntryAcceptedAs(e, c) ==
    {n \in {"AbiFunction", "AbiEvent", "AbiError"} :
        \/ n = "AbiFunction" /\ IsAbiFunction(e, c)
        \/ n = "AbiEvent" /\ IsAbiEvent(e, c)
        \/ n = "AbiError" /\ IsAbiError(e, c)}

ParameterAcceptedAs(p, c) == IF IsAbiParameter(p, c) THEN {"AbiParameter"} ELSE {}

----------------------------------------------------------------------------
(* An ABI parameter or an ABI entry checked against the declared types *)

\* most parameter objects in a checked parameter, itself included
MaxNodes == 3
\* longest inputs or outputs list of a checked entry
MaxParams == 1

AbiConfigs ==
    {DefaultConfig,
     [ArrayMaxDepth |-> 1, FixedArrayMinLength |-> 1, FixedArrayMaxLength |-> 1]}

Parameter(ty, nm, it, comps) ==
    [type |-> ty, name |-> nm, internalType |-> it, components |-> comps,
     indexed |-> Missing]

sX == <<"x">>

NodeTypes ==
    {Some(JString(sTuple)), Some(JString(sTuple \o <<"[", "x", "]">>)),
     Some(JString(sAddress)), Some(JString(sBytes \o NumStr(33)))}
NodeNames == {Some(JString(sX)), Missing}

\* Trees(n): parameters of at most n objects; Forests(n): component lists
\* of at most n objects in all
RECURSIVE Trees(_), Forests(_)
Trees(n) ==
    {Parameter(ty, nm, Missing, comps) :
        ty \in NodeTypes, nm \in NodeNames,
        comps \in {Missing} \cup {Some(f) : f \in Forests(n - 1)}}
Forests(n) ==
    IF n = 0 THEN {<<>>}
    ELSE {<<>>} \cup UNION {{<<t>> \o f : t \in Trees(j), f \in Forests(n - j)} :
                              j \in 1..n}

\* one parameter with the other properties varied
FlatParameters ==
    {[type |-> ty, name |-> nm, internalType |-> it, components |-> comps,
      indexed |-> ix] :
        ty \in {Some(JString(sAddress)), Some(JString(sTuple \o <<"[", "]">>)),
                Some(JString(sTuple \o <<"[", "1", "]">>)),
                Some(JString(sTuple \o <<"[", "2", "]">>)), Some(JNumber), Missing},
        nm \in {Some(JString(sX)), Some(JNumber)},
        it \in {Missing, Some(JString(sStruct \o <<" ">> \o sPerson)),
                Some(JString(sPerson)), Some(JString(sAddress)), Some(JNumber)},
        comps \in {Missing, Some(<<>>)},
        ix \in {Missing}}

ParameterInputs == Trees(MaxNodes) \cup FlatParameters

GoodParameter == Parameter(Some(JString(sAddress)), Some(JString(sX)), Missing, Missing)
IndexedParameter == [GoodParameter EXCEPT !.indexed = Some(JBoolean)]
BadParameter  == Parameter(Some(JString(sTuple)), Some(JString(sX)), Missing, Missing)

RECURSIVE ListsOf(_, _)
ListsOf(S, n) ==
    IF n = 0 THEN {<<>>}
    ELSE ListsOf(S, n - 1) \cup {Append(l, x) : l \in ListsOf(S, n - 1), x \in S}

EntryLists ==
    {Missing} \cup {Some(l) : l \in ListsOf({GoodParameter, BadParameter}, MaxParams)}

\* the deprecated and optional properties, varied one at a time
EntryExtras ==
    {[constant |-> Missing, gas |-> Missing, payable |-> Missing, anonymous |-> Missing],
     [constant |-> Some(JBoolean), gas |-> Some(JNumber), payable |-> Some(JBoolean),
      anonymous |-> Some(JBoolean)],
     [constant |-> Missing, gas |-> Missing, payable |-> Some(JString(sX)),
      anonymous |-> Missing],
     [constant |-> Missing, gas |-> Missing, payable |-> Missing,
      anonymous |-> Some(JNumber)]}

EntryInputs ==
    {[type |-> ty, name |-> nm, inputs |-> ins, outputs |-> outs,
      stateMutability |-> sm, constant |-> x.constant, gas |-> x.gas,
      payable |-> x.payable, anonymous |-> x.anonymous] :
        ty \in {Some(JString(w)) : w \in {sFunction, sConstructor, sFallback,
                                          sReceive, sEvent, sError, sX}}
               \cup {Missing},
        nm \in {Missing, Some(JString(sX)), Some(JNumber)},
        ins \in EntryLists,
        outs \in EntryLists,
        sm \in {Some(JString(w)) : w \in {sPure, sView, sNonpayable, sPayable, sX}}
               \cup {Missing},
        x \in EntryExtras}
    \cup
    {[type |-> Some(JString(sEvent)), name |-> Some(JString(sX)),
      inputs |-> Some(<<q>>), outputs |-> Missing, stateMutability |-> Missing,
      constant |-> Missing, gas |-> Missing, payable |-> Missing,
      anonymous |-> Missing] :
        q \in {IndexedParameter, [GoodParameter EXCEPT !.indexed = Some(JNumber)]}}

InitAbi ==
    /\ \/ mode = "parameter" /\ input \in ParameterInputs
       \/ mode = "entry" /\ input \in EntryInputs
    /\ cfg \in AbiConfigs
    /\ pc = "eval"
    /\ base = {} /\ T = {} /\ Depth = <<>> /\ expansions = 0 /\ built = Never
    /\ accepted = {}

CheckParameter ==
    /\ mode = "parameter" /\ pc = "eval"
    /\ accepted' = ParameterAcceptedAs(input, cfg)
    /\ pc' = "done"
    /\ UNCHANGED <<mode, cfg, base, T, Depth, expansions, built, input>>

CheckEntry ==
    /\ mode = "entry" /\ pc = "eval"
    /\ accepted' = EntryAcceptedAs(input, cfg)
    /\ pc' = "done"
    /\ UNCHANGED <<mode, cfg, base, T, Depth, expansions, built, input>>

NextAbi == CheckParameter \/ CheckEntry

SpecAbi == InitAbi /\ [][NextAbi]_vars

----------------------------------------------------------------------------
(* Typed data types *)

\* keyof TypedData: the string index signature gives string | number
IsKeyofTypedData(v) == v.tag \in {"string", "number"}

\* `${keyof TypedData}[${string | ''}]`
IsKeyofTypedDataArray(v) ==
    /\ v.tag = "string"
    /\ \E k \in 0..Len(v.str) : MatchesPattern(v.str, SubSeq(v.str, 1, k))

IsTypedDataParameter(p, c) ==
    /\ IsString(p.name)
    /\ Has(p.type)
    /\ \/ IsStringOf(p.type, TypedDataType(c, p.type[1].str))
       \/ IsKeyofTypedData(p.type[1])
       \/ IsKeyofTypedDataArray(p.type[1])

\* KeyIsNever with the mapped type left out
KeyIsNeverDropped(k, c) == FALSE

\* [_ in TypedDataType]?: never -- a property under such a key cannot hold
\* a parameter list
KeyIsNever(k, c) == Member(k, TypedDataType(c, k))

\* m is a function from its keys to lists of objects
IsTypedData(m, c) ==
    \A k \in DOMAIN m :
        /\ \A i \in 1..Len(m[k]) : IsTypedDataParameter(m[k][i], c)
        /\ ~KeyIsNever(k, c)

TypedDataAcceptedAs(m, c) == IF IsTypedData(m, c) THEN {"TypedData"} ELSE {}

----------------------------------------------------------------------------
(* A typed data mapping checked against TypedData *)

\* most struct names in a checked mapping
MaxStructs == 2

sMail    == <<"M", "a", "i", "l">>
sUnknown == <<"U", "n", "k", "n", "o", "w", "n">>

TypedDataKeys ==
    {sPerson, sMail, sAddress, sBool, sString, sBytes \o NumStr(32),
     sU \o sInt \o NumStr(256), sAddress \o <<"[", "]">>, sTuple}

TypedDataParameterLists ==
    {<<>>} \cup
    {<<[name |-> nm, type |-> ty]>> :
        nm \in {Some(JString(sX)), Missing},
        ty \in {Some(JString(sAddress)), Some(JString(sPerson)),
                Some(JString(sMail \o <<"[", "]">>)), Some(JString(sUnknown)),
                Some(JString(sUnknown \o <<"[", "2", "]">>)), Some(JNumber)}}

TypedDataInputs ==
    UNION {[K -> TypedDataParameterLists] :
             K \in {K \in SUBSET TypedDataKeys : Cardinality(K) <= MaxStructs}}

InitTyped ==
    /\ mode = "typedData"
    /\ input \in TypedDataInputs
    /\ cfg \in AbiConfigs
    /\ pc = "eval"
    /\ base = {} /\ T = {} /\ Depth = <<>> /\ expansions = 0 /\ built = Never
    /\ accepted = {}

CheckTypedData ==
    /\ mode = "typedData" /\ pc = "eval"
    /\ accepted' = TypedDataAcceptedAs(input, cfg)
    /\ pc' = "done"
    /\ UNCHANGED <<mode, cfg, base, T, Depth, expansions, built, input>>

NextTyped == CheckTypedData

SpecTyped == InitTyped /\ [][NextTyped]_vars

----------------------------------------------------------------------------
(* Reading a type string back: numerals and bracket suffixes *)

Digits == {DigitChars[i] : i \in 1..10}
DigitVal(ch) == (CHOOSE i \in 1..10 : DigitChars[i] = ch) - 1

IsNumeral(m) ==
    /\ Len(m) >= 1
    /\ \A i \in 1..Len(m) : m[i] \in Digits
    /\ Len(m) > 1 => m[1] # "0"

RECURSIVE ParseNat(_)
ParseNat(m) ==
    IF Len(m) = 0 THEN 0
    ELSE 10 * ParseNat(SubSeq(m, 1, Len(m) - 1)) + DigitVal(m[Len(m)])

\* s ends with a bracket group "[...]" holding no bracket
HasSuffix(s) ==
    /\ Len(s) >= 2
    /\ s[Len(s)] = "]"
    /\ \E i \in 1..(Len(s) - 1) :
          /\ s[i] = "["
          /\ \A j \in (i + 1)..(Len(s) - 1) : s[j] \notin {"[", "]"}

LastOpen(s) == CHOOSE i \in 1..(Len(s) - 1) :
    s[i] = "[" /\ \A j \in (i + 1)..(Len(s) - 1) : s[j] # "["

LastContent(s) == SubSeq(s, LastOpen(s) + 1, Len(s) - 1)
DropSuffix(s)  == SubSeq(s, 1, LastOpen(s) - 1)

RECURSIVE BaseOf(_)
BaseOf(s) == IF HasSuffix(s) THEN BaseOf(DropSuffix(s)) ELSE s

RECURSIVE ArrayDepthOf(_)
ArrayDepthOf(s) == IF HasSuffix(s) THEN 1 + ArrayDepthOf(DropSuffix(s)) ELSE 0

\* the contents of the bracket groups of s, last group first
RECURSIVE Contents(_)
Contents(s) ==
    IF HasSuffix(s) THEN <<LastContent(s)>> \o Contents(DropSuffix(s)) ELSE <<>>

\* m is empty or the numeral of a length in the configured range
ContentInRange(m, c) ==
    \/ m = <<>>
    \/ IsNumeral(m) /\ ParseNat(m) \in SolidityFixedArrayRange(c)

WellFormedSuffixes(s, c) ==
    \A i \in 1..Len(Contents(s)) : ContentInRange(Contents(s)[i], c)

\* b followed by d copies of "[]"
RECURSIVE Dynamic(_, _)
Dynamic(b, d) == IF d = 0 THEN b ELSE Dynamic(b, d - 1) \o <<"[", "]">>

\* s ends with "]" and holds a "[": some bracket group, well formed or not
Bracketed(s) ==
    /\ Len(s) >= 2
    /\ s[Len(s)] = "]"
    /\ \E i \in 1..(Len(s) - 1) : s[i] = "["

\* the text of s after the word w
After(w, s) == SubSeq(s, Len(w) + 1, Len(s))

ByteWidth(n) == 1 <= n /\ n <= 32
BitWidth(n)  == 8 <= n /\ n <= 256 /\ n % 8 = 0

\* s is "bytes", or "bytes" followed by the numeral of a byte width
BytesForm(s) ==
    /\ IsPrefix(sBytes, s)
    /\ \/ After(sBytes, s) = <<>>
       \/ IsNumeral(After(sBytes, s)) /\ ByteWidth(ParseNat(After(sBytes, s)))

\* s is the word w, or w followed by the numeral of a bit width
IntForm(s, w) ==
    /\ IsPrefix(w, s)
    /\ \/ After(w, s) = <<>>
       \/ IsNumeral(After(w, s)) /\ BitWidth(ParseNat(After(w, s)))

\* the types the Solidity ABI specification lists, read from the string
ListedPrimitive(s) ==
    \/ s \in {sAddress, sBool, sFunction, sString, sTuple}
    \/ BytesForm(s)
    \/ IntForm(s, sInt)
    \/ IntForm(s, sU \o sInt)

\* s is the word w or w followed by a bracket
HasBase(s, w) == s = w \/ IsPrefix(w \o <<"[">>, s)

\* k + k^2 + ... + k^d
RECURSIVE SumPowers(_, _)
SumPowers(k, d) == IF d = 0 THEN 0 ELSE k * (1 + SumPowers(k, d - 1))

----------------------------------------------------------------------------
(* C9: with ArrayMaxDepth a finite D, _BuildArrayTypes<T> is, for D >= 1,   *)
(* exactly the strings made of a member of T followed by d bracket         *)
(* suffixes, 1 <= d <= D, each suffix "[]" or "[N]" with N in the          *)
(* fixed-array-length range; T followed by d copies of "[]" is in the set  *)
(* and reads back with depth d; no member has more than D suffixes; and    *)
(* for D = 0 the set is T itself.                                          *)
C9_BuiltSetExact ==
    (mode = "build" /\ pc = "done" /\ cfg.ArrayMaxDepth # Off) =>
        LET D == cfg.ArrayMaxDepth IN
        /\ built.pats = {}
        /\ \A s \in built.lits :
              /\ BaseOf(s) \in base
              /\ ArrayDepthOf(s) <= D
              /\ D >= 1 => ArrayDepthOf(s) >= 1
              /\ WellFormedSuffixes(s, cfg)
        /\ \A b \in base : \A d \in 1..D :
              /\ Dynamic(b, d) \in built.lits
              /\ ArrayDepthOf(Dynamic(b, d)) = d
        /\ \A b \in base : \A d \in 1..D :
              \A n \in SolidityFixedArrayRange(cfg) :
                 Dynamic(b, d - 1) \o <<"[">> \o NumStr(n) \o <<"]">> \in built.lits
        /\ Cardinality(built.lits) =
              IF D = 0 THEN Cardinality(base)
              ELSE Cardinality(base) * SumPowers(Cardinality(Suffixes(cfg)), D)
        /\ D = 0 => built.lits = base

C9_Witness ==
    /\ mode = "build" /\ pc = "done"
    /\ cfg.ArrayMaxDepth = 2
    /\ cfg.FixedArrayMinLength < cfg.FixedArrayMaxLength
    /\ Cardinality(base) = 2
    /\ Dynamic(sTuple, 2) \in built.lits

(* C10: the evaluation of _BuildArrayTypes terminates.  With ArrayMaxDepth  *)
(* false it returns the pattern without recursing; with a finite D the     *)
(* Depth counter starts at 0, grows by one on every recursive step and the *)
(* evaluation stops when it equals D, after exactly D expansions.          *)
C10_BuildTerminates ==
    /\ [](mode = "build" => expansions = Len(Depth))
    /\ [][(pc = "eval" /\ pc' = "eval") => Len(Depth') = Len(Depth) + 1]_vars
    /\ []((mode = "build" /\ pc = "done") =>
            IF cfg.ArrayMaxDepth = Off
              THEN expansions = 0 /\ built = BroadArray(base)
              ELSE expansions = cfg.ArrayMaxDepth /\ Len(Depth) = cfg.ArrayMaxDepth)
    /\ <>(pc = "done")

C10_Witness ==
    /\ mode = "build" /\ pc = "done"
    /\ cfg.ArrayMaxDepth = MaxDepthCfg
    /\ expansions = MaxDepthCfg

----------------------------------------------------------------------------
(* C2: a string without array suffix is accepted as an AbiType if and only *)
(* if it is address, bool, function, string, tuple, bytes<M> with M empty  *)
(* or in 1..32, or int<M>/uint<M> with M empty or a multiple of 8 in       *)
(* 8..256; bytes0, bytes33, uint7, int7, uint264, int264 are not accepted. *)
C2_PrimitiveGrammar ==
    (mode = "type" /\ pc = "done" /\ ~Bracketed(input)) =>
        /\ ("AbiType" \in accepted) <=> ListedPrimitive(input)
        /\ input \in {sBytes \o NumStr(0), sBytes \o NumStr(33),
                       sU \o sInt \o NumStr(7), sInt \o NumStr(7),
                       sU \o sInt \o NumStr(264), sInt \o NumStr(264)}
              => "AbiType" \notin accepted
        /\ ("SolidityBytes" \in accepted) <=> BytesForm(input)
        /\ ("SolidityInt" \in accepted) <=>
              (IntForm(input, sInt) \/ IntForm(input, sU \o sInt))

C2_Witness ==
    /\ mode = "type" /\ pc = "done"
    /\ input = sU \o sInt \o NumStr(256)
    /\ "AbiType" \in accepted /\ "SolidityInt" \in accepted

\* input is a listed primitive followed by "[", any text and a final "]"
BroadArrayForm(s) ==
    \E k \in 1..Len(s) :
        /\ ListedPrimitive(SubSeq(s, 1, k))
        /\ Len(s) >= k + 2
        /\ s[k + 1] = "["
        /\ s[Len(s)] = "]"

\* input is a listed primitive followed by well-formed bracket suffixes
StrictArrayForm(s, c) ==
    /\ ListedPrimitive(BaseOf(s))
    /\ ArrayDepthOf(s) >= 1
    /\ WellFormedSuffixes(s, c)

(* C3 as stated: under every configuration, the default ArrayMaxDepth =    *)
(* false included, every string accepted as an array AbiType is a          *)
(* primitive or tuple base followed by one or more bracket suffixes, each  *)
(* "[]" or "[N]" with N in the fixed-array-length range.                   *)
C3_Original ==
    (mode = "type" /\ pc = "done" /\ "SolidityArray" \in accepted) =>
        StrictArrayForm(input, cfg)

(* C3 as amended: with ArrayMaxDepth a finite D >= 1 a string is accepted  *)
(* as an array AbiType exactly when it is a primitive or tuple base        *)
(* followed by 1..D bracket suffixes, each "[]" or "[N]" with N in the     *)
(* fixed-array-length range; with D = 0 the array type is the set of bare  *)
(* bases; with ArrayMaxDepth = false a string is accepted exactly when it  *)
(* is a base followed by "[", any text and a final "]".                    *)
C3_Amended ==
    (mode = "type" /\ pc = "done") =>
        ("SolidityArray" \in accepted) <=>
            IF cfg.ArrayMaxDepth = Off THEN BroadArrayForm(input)
            ELSE IF cfg.ArrayMaxDepth = 0 THEN ListedPrimitive(input)
            ELSE StrictArrayForm(input, cfg)
                   /\ ArrayDepthOf(input) <= cfg.ArrayMaxDepth

C3_Witness ==
    /\ mode = "type" /\ pc = "done"
    /\ cfg.ArrayMaxDepth = Off
    /\ input = sAddress \o <<"[", "x", "]">>
    /\ "SolidityArray" \in accepted

(* C8: no string accepted as a TypedDataType has tuple or function as its  *)
(* base type, bare or followed by array suffixes, and every other AbiType  *)
(* is a TypedDataType.                                                     *)
C8_TypedDataTypeExcludes ==
    (mode = "type" /\ pc = "done") =>
        ("TypedDataType" \in accepted) <=>
            /\ "AbiType" \in accepted
            /\ ~HasBase(input, sTuple)
            /\ ~HasBase(input, sFunction)

----------------------------------------------------------------------------
\* the type string of p is tuple or a tuple-array of the configuration
TupleLike(p, c) ==
    /\ IsString(p.type)
    /\ LET s == p.type[1].str IN
       \/ s = sTuple
       \/ /\ c.ArrayMaxDepth = Off
          /\ IsPrefix(sTuple \o <<"[">>, s)
          /\ s[Len(s)] = "]"
       \/ /\ c.ArrayMaxDepth >= 1
          /\ BaseOf(s) = sTuple
          /\ ArrayDepthOf(s) >= 1 /\ ArrayDepthOf(s) <= c.ArrayMaxDepth
          /\ WellFormedSuffixes(s, c)

\* p and the parameters below it that the check of p reaches
RECURSIVE CheckedNodes(_, _)
CheckedNodes(p, c) ==
    {p} \cup
    (IF TupleLike(p, c) /\ Has(p.components)
       THEN UNION {CheckedNodes(p.components[1][i], c) :
                     i \in 1..Len(p.components[1])}
       ELSE {})

(* C1 as stated: in every accepted AbiParameter, at any nesting level,     *)
(* `components` is present if and only if `type` is tuple or a tuple-array *)
(* type.                                                                   *)
C1_Original ==
    (mode = "parameter" /\ pc = "done" /\ accepted # {}) =>
        \A n \in CheckedNodes(input, cfg) :
            Has(n.components) <=> TupleLike(n, cfg)

(* C1 as amended: in every accepted AbiParameter, at any nesting level, a  *)
(* `type` of tuple or tuple-array comes with `components`; a tuple or      *)
(* tuple-array parameter without `components` is rejected and one with     *)
(* `components: []` is accepted; a parameter of any other type is accepted *)
(* or rejected as the same parameter without `components` is.              *)
C1_Amended ==
    (mode = "parameter" /\ pc = "done") =>
        /\ accepted # {} =>
             \A n \in CheckedNodes(input, cfg) :
                 TupleLike(n, cfg) => Has(n.components)
        /\ (TupleLike(input, cfg) /\ ~Has(input.components)) => accepted = {}
        /\ (/\ TupleLike(input, cfg)
            /\ input.components = Some(<<>>)
            /\ IsString(input.name)
            /\ ~Has(input.internalType)) => accepted # {}
        /\ ~TupleLike(input, cfg) =>
             accepted = ParameterAcceptedAs([input EXCEPT !.components = Missing], cfg)

C1_Witness ==
    /\ mode = "parameter" /\ pc = "done"
    /\ accepted # {}
    /\ input.type = Some(JString(sAddress))
    /\ Has(input.components)
    /\ Len(input.components[1]) = 2

(* C4: an ABI entry is accepted only with the fields its `type` requires:  *)
(* a function with inputs, name, outputs and stateMutability, a            *)
(* constructor with inputs and stateMutability, an event or error with     *)
(* inputs and name, a receive with stateMutability exactly payable.        *)
C4_RequiredFields ==
    (mode = "entry" /\ pc = "done" /\ accepted # {}) =>
        /\ IsString(input.type)
        /\ IsLiteral(input.type, sFunction) =>
             /\ IsAbiParameters(input.inputs, cfg)
             /\ IsString(input.name)
             /\ IsAbiParameters(input.outputs, cfg)
             /\ \E w \in {sPure, sView, sNonpayable, sPayable} :
                   IsLiteral(input.stateMutability, w)
        /\ IsLiteral(input.type, sConstructor) =>
             /\ IsAbiParameters(input.inputs, cfg)
             /\ \E w \in {sPure, sView, sNonpayable, sPayable} :
                   IsLiteral(input.stateMutability, w)
        /\ (IsLiteral(input.type, sEvent) \/ IsLiteral(input.type, sError)) =>
             /\ IsAbiParameters(input.inputs, cfg)
             /\ IsString(input.name)
        /\ IsLiteral(input.type, sReceive) =>
             IsLiteral(input.stateMutability, sPayable)

C4_Witness ==
    /\ mode = "entry" /\ pc = "done"
    /\ accepted = {"AbiFunction"}
    /\ IsLiteral(input.type, sFunction)
    /\ input.inputs = Some(<<GoodParameter>>)
    /\ input.outputs = Some(<<>>)

(* C5 as stated: an entry that carries a field forbidden for its `type` is *)
(* rejected: a constructor with name or outputs, a receive with inputs or  *)
(* outputs, an error with stateMutability.                                 *)
C5_Original ==
    (mode = "entry" /\ pc = "done" /\ accepted # {}) =>
        /\ IsLiteral(input.type, sConstructor) =>
             ~Has(input.name) /\ ~Has(input.outputs)
        /\ IsLiteral(input.type, sReceive) =>
             ~Has(input.inputs) /\ ~Has(input.outputs)
        /\ IsLiteral(input.type, sError) => ~Has(input.stateMutability)

(* C5 as amended: a field the entry's `type` does not declare is not       *)
(* checked: a constructor with name or outputs, a receive with inputs or   *)
(* outputs and an error with stateMutability are accepted exactly when the *)
(* same entry without that field is accepted.                              *)
C5_Amended ==
    (mode = "entry" /\ pc = "done") =>
        /\ IsLiteral(input.type, sConstructor) =>
             accepted = EntryAcceptedAs(
                 [input EXCEPT !.name = Missing, !.outputs = Missing], cfg)
        /\ IsLiteral(input.type, sReceive) =>
             accepted = EntryAcceptedAs(
                 [input EXCEPT !.inputs = Missing, !.outputs = Missing], cfg)
        /\ IsLiteral(input.type, sError) =>
             accepted = EntryAcceptedAs(
                 [input EXCEPT !.stateMutability = Missing], cfg)

C5_Witness ==
    /\ mode = "entry" /\ pc = "done"
    /\ accepted = {"AbiError"}
    /\ IsLiteral(input.type, sError)
    /\ Has(input.stateMutability)

----------------------------------------------------------------------------
\* k names a TypedDataType: a listed primitive other than tuple and
\* function
PrimitiveName(k) == ListedPrimitive(k) /\ k \notin {sTuple, sFunction}

(* C6: in every accepted TypedData mapping no struct-name key equals a     *)
(* TypedDataType name: a mapping with a key such as address, bool, string, *)
(* bytes32 or uint256 is rejected, whatever the other keys are.            *)
C6_NoReservedStructName ==
    (mode = "typedData" /\ pc = "done") =>
        /\ accepted # {} => \A k \in DOMAIN input : ~PrimitiveName(k)
        /\ (\E k \in DOMAIN input :
               k \in {sAddress, sBool, sString, sBytes \o NumStr(32),
                      sU \o sInt \o NumStr(256)}) => accepted = {}

C6_Witness ==
    /\ mode = "typedData" /\ pc = "done"
    /\ DOMAIN input = {sPerson, sAddress}
    /\ input[sPerson] = <<[name |-> Some(JString(sX)), type |-> Some(JString(sAddress))]>>
    /\ input[sAddress] = <<>>
    /\ accepted = {}

\* s without one trailing "[...]"
StripArray(s) == IF HasSuffix(s) THEN DropSuffix(s) ELSE s

(* C7: for every TypedDataParameter of an accepted TypedData mapping, its  *)
(* `type`, after stripping a trailing array suffix, is a TypedDataType     *)
(* primitive or a key of the same mapping.                                 *)
C7_StructReferencesResolve ==
    (mode = "typedData" /\ pc = "done" /\ accepted # {}) =>
        \A k \in DOMAIN input : \A i \in 1..Len(input[k]) :
            /\ IsString(input[k][i].type)
            /\ LET s == StripArray(input[k][i].type[1].str) IN
               PrimitiveName(s) \/ s \in DOMAIN input

=============================================================================
